---- MODULE Spec2Model ----
(***************************************************************************)
(* The attendance session of TakeAttendancePage.tsx as a state machine,    *)
(* followed by the quiz page (GenerateQuizPage.tsx, QuizSpec), debounce    *)
(* and throttle (utils/performance.ts, DebounceSpec and ThrottleSpec) and  *)
(* the lecture recorder (components/LectureRecorder.tsx, RecorderSpec).    *)
(* Each specification exercises one of them and leaves the others in      *)
(* their initial state.                                                    *)
(*                                                                         *)
(*                                                                         *)
(* The page is a React function component.  Its state variables are the    *)
(* useState cells and refs of the component; every event handler, timer    *)
(* callback and asynchronous callback is one action.  A handler runs to    *)
(* completion and the re-render that follows it is part of the same step,  *)
(* so a handler created by the latest render reads the current state.      *)
(* Callbacks that outlive a render keep the values of the render that      *)
(* created them: the countdown callback installed by                       *)
(* startAttendanceSession keeps that render's endAttendanceSession (and    *)
(* so its currentSession, detectedFaces and registeredStudents), and a     *)
(* canvas.toBlob callback keeps the processFrameForFaceRecognition of the  *)
(* render in which detectAndRecognizeFaces was called.  Updater functions  *)
(* are invoked once per update (production build of React).                *)
(*                                                                         *)
(* No decision of the page reads the timestamp or the confidence of an     *)
(* AttendanceRecord, the clock or a caught exception.  Spec therefore      *)
(* follows the page with one clock reading and one value of Math.random(); *)
(* DetailSpec lets the clock advance, Math.random() vary and the calls     *)
(* inside the try blocks throw, for one visit of the page.                 *)
(***************************************************************************)
EXTENDS Integers, Sequences, FiniteSets, Bags, TLC

\* ---- bounds (scaled stand-ins for the values of the source) ----
NumStudents == 2        \* size of mockStudents (6 in the source)
maxStudents == 2        \* useState(6) in the source
MaxTimeSlot == 2        \* the selector offers 3, 5, 10, 15 minutes; here 1..MaxTimeSlot
SecondsPerMinute == 2   \* timeSlot * 60 in the source
MaxInflight == 2        \* canvas.toBlob callbacks pending at one time
MaxSessions == 2        \* sessions started in one run
RandomSteps == 2        \* Math.random() takes the values k / RandomSteps, 0 <= k < RandomSteps
MaxClock == 2           \* readings of new Date(): 0..MaxClock
NumQuestions == 2       \* size of questionBank (7 in the source)
NumOptions == 2         \* options of a question (4 in the source)
MaxTimeLimit == 1       \* the selector offers 5..60 minutes; here 1..MaxTimeLimit
MaxQuizzes == 2         \* quizzes started in one run
MaxDelay == 2           \* wait of debounce and limit of throttle: 1..MaxDelay time units
MaxUtilClock == 4       \* readings of the clock the timers run on: 0..MaxUtilClock
NumArgs == 2            \* distinct argument lists passed to a wrapped function
MaxCalls == 3           \* calls of a wrapped function in one run
MaxSegments == 2        \* final results delivered by the speech recognition
MaxRecordings == 2      \* recordings started in one run
MaxRecognitions == 3    \* SpeechRecognition objects alive at one time

VARIABLES
    mounted,            \* the TakeAttendancePage instance is mounted
    cameraRequest,      \* getUserMedia: "pending", "granted" or "denied"
    isInitialized,
    isRecording,
    timeSlot,
    currentSession,
    registeredStudents,
    detectedFaces,
    timeRemaining,
    intervalRef,        \* intervalRef.current, 0 for null
    intervals,          \* live countdown intervals: id -> values captured by the callback
    inflight,           \* bag of pending canvas.toBlob callbacks (captured values)
    results,            \* navigations to the results page, in order
    sessionSeq,         \* number of sessions started (stands for Date.now() in sessionId)
    elapsed,            \* history: countdown ticks since the last start
    ended,              \* history: one entry per run of a terminal trigger
    now,                \* environment: the reading of new Date()
    randomValues,       \* environment: the values k for which Math.random() = k / RandomSteps
    adapterFailed       \* history: a try block of the detection path threw in this session

vars == <<mounted, cameraRequest, isInitialized, isRecording, timeSlot,
          currentSession, registeredStudents, detectedFaces, timeRemaining,
          intervalRef, intervals, inflight, results, sessionSeq, elapsed, ended,
          now, randomValues, adapterFailed>>

env == <<now, randomValues>>

\* GenerateQuizPage.tsx
VARIABLES
    quizMounted,        \* the GenerateQuizPage instance is mounted
    quizConfig,         \* subject, questionCount and timeLimit of quizConfig
    isGenerating,
    pendingQuiz,        \* the selection held by the setTimeout of generateQuiz
    generatedQuiz,
    currentQuestionIndex,
    selectedAnswers,    \* question id -> option index, for the answered questions
    isQuizStarted,
    isQuizCompleted,
    quizTimeRemaining,  \* the timeRemaining cell of GenerateQuizPage
    quizResults,
    quizTimers,         \* live countdown intervals: id -> values captured by the callback
    quizSeq,            \* history: number of quizzes started
    completions         \* history: one entry per call of completeQuiz

quizVars == <<quizMounted, quizConfig, isGenerating, pendingQuiz, generatedQuiz,
              currentQuestionIndex, selectedAnswers, isQuizStarted,
              isQuizCompleted, quizTimeRemaining, quizResults, quizTimers,
              quizSeq, completions>>

\* the clock that setTimeout and Date.now() of the sections below run on
VARIABLE clock

\* utils/performance.ts: one function returned by debounce(func, wait, immediate)
VARIABLES
    immediate,
    wait,
    timeout,            \* the `timeout` of the closure: a timer id, 0 for null
    debounceTimers,     \* pending setTimeout timers: id -> due time and args of `later`
    debounceLog,        \* history: the invocations of func, in order
    lastCall,           \* history: time and args of the latest call, at = -1 before the first
    debounceCalls,      \* history: number of calls made
    invokedSinceCall    \* history: invocations of func since the latest call

debounceVars == <<immediate, wait, timeout, debounceTimers, debounceLog, lastCall,
                  debounceCalls, invokedSinceCall>>

\* utils/performance.ts: one function returned by throttle(func, limit)
VARIABLES
    limit,
    inThrottle,
    throttleTimers,     \* pending setTimeout timers: id -> due time
    throttleLog,        \* history: the invocations of func, in order
    throttleCalls       \* history: number of calls made

throttleVars == <<limit, inThrottle, throttleTimers, throttleLog, throttleCalls>>

\* components/LectureRecorder.tsx
VARIABLES
    supported,          \* window has SpeechRecognition or webkitSpeechRecognition
    hasPermission,      \* "null", "granted" or "denied" for null, true, false
    lectureRecording,   \* the isRecording cell of LectureRecorder
    isPaused,
    transcript,
    currentText,
    recordingDuration,
    recognitionRef,     \* recognitionRef.current: an object id, 0 for null
    recognitions,       \* SpeechRecognition objects: id -> state and the values onend captured
    durationRef,        \* intervalRef.current of LectureRecorder, 0 for null
    durationIntervals,  \* live duration intervals
    startTimeRef,       \* startTimeRef.current, -1 for null
    startedRecognition, \* history: the object the latest startRecording or resume started
    recordingSeq,       \* history: number of recordings started
    pdfs                \* history: calls of onRecordingComplete

recorderVars == <<supported, hasPermission, lectureRecording, isPaused, transcript,
                  currentText, recordingDuration, recognitionRef, recognitions,
                  durationRef, durationIntervals, startTimeRef, startedRecognition,
                  recordingSeq, pdfs>>

allVars == <<vars, quizVars, clock, debounceVars, throttleVars, recorderVars>>

\* ---- helpers ----
Min(a, b) == IF a <= b THEN a ELSE b

ToSet(s) == { s[i] : i \in DOMAIN s }

Last(s) == s[Len(s)]

\* useState<AttendanceSession | null>(null): sessionId 0 stands for null
NullSession ==
    [sessionId |-> 0, timeSlot |-> 0, maxStudents |-> 0,
     detectedStudents |-> <<>>, isActive |-> FALSE, startTime |-> 0]

DefaultTimeSlot == 1

\* the ids of the mockStudents array, in order
mockStudents == [i \in 1..NumStudents |-> i]

\* sessionId: `session_${Date.now()}`
NewSessionIdMut == IF sessionSeq = 0 THEN sessionSeq + 1 ELSE sessionSeq

NewSessionId == sessionSeq + 1

\* an unused timer id, as setInterval returns
NewIntervalId == CHOOSE i \in 1..(Cardinality(DOMAIN intervals) + 1) : i \notin DOMAIN intervals

\* student => !detected.some(d => d.studentId === student.id), as a filter
NotDetected(students, detected) ==
    LET Keep(s) == \A k \in DOMAIN detected : detected[k].studentId # s
    IN  SelectSeq(students, Keep)

AbsentStudentsMut(students, detected) == students

AbsentStudents(students, detected) == NotDetected(students, detected)

AvailableStudents(students, detected) == NotDetected(students, detected)

\* confidences are counted in thousandths
ConfidenceUnit == 1000

\* 0.85 + Math.random() * 0.1, for Math.random() = k / RandomSteps
ConfidenceMut(k) == 850 + (k * 1000) \div RandomSteps

Confidence(k) == 850 + (k * 100) \div RandomSteps

\* the AttendanceRecord built for student s
NewDetection(s, k) ==
    [studentId |-> s, timestamp |-> now, confidence |-> Confidence(k)]

\* setDetectedFaces(prev => [...prev, newDetection])
AddDetectionMut(prev, d) ==
    LET Other(r) == r.studentId # d.studentId
    IN  Append(SelectSeq(prev, Other), d)

AddDetection(prev, d) == Append(prev, d)

\* the studentIds of a list of AttendanceRecords
StudentIds(records) == { records[i].studentId : i \in DOMAIN records }

TimerExpiredMut(prev) == prev <= 0

TimerExpired(prev) == prev <= 1

\* clearInterval(id)
ClearIntervalMut(ivs, id) == ivs

ClearInterval(ivs, id) == [i \in (DOMAIN ivs) \ {id} |-> ivs[i]]

\* the start controls are rendered only while !isRecording, and the button is
\* disabled until the camera and the roster are there
RosterReadyMut == TRUE

\* disabled={... || registeredStudents.length === 0}
RosterReady == Len(registeredStudents) # 0

CanStartMut == isInitialized /\ Len(registeredStudents) # 0

CanStart == ~isRecording /\ isInitialized /\ RosterReady

\* setTimeRemaining(timeSlot * 60)
InitialTimeRemainingMut(t) == t * SecondsPerMinute + 1

InitialTimeRemaining(t) == t * SecondsPerMinute

\* if (intervalRef.current) clearInterval(intervalRef.current), on unmount
CleanupIntervalMut(ivs, ref) == ivs

CleanupInterval(ivs, ref) == IF ref # 0 THEN ClearInterval(ivs, ref) ELSE ivs

\* ---- the results page (AttendanceResultsPage) ----
\* reading state.session.terminationReason: a property that is not there is undefined
TerminationReasonOf(r) ==
    IF "terminationReason" \in DOMAIN r.session THEN r.session.terminationReason
    ELSE IF "terminationReason" \in DOMAIN r THEN r.terminationReason
    ELSE "undefined"

totalStudents(r) == Len(r.presentStudents) + Len(r.absentStudents)

\* (presentStudents.length / totalStudents) * 100, as the fraction num / den
attendancePercentage(r) ==
    IF totalStudents(r) > 0
    THEN [num |-> Len(r.presentStudents) * 100, den |-> totalStudents(r)]
    ELSE [num |-> 0, den |-> 1]

\* ---- the quiz page (GenerateQuizPage) ----
\* the `correct` fields of questionBank, in order
questionBankCorrect == <<0, 1, 1, 0, 0, 2, 0>>

questionBank == [i \in 1..NumQuestions |-> [id |-> i, correct |-> questionBankCorrect[i]]]

Options == 0..(NumOptions - 1)

Subjects == {"", "Mathematics"}

\* the question counts offered: one below and one above the size of the bank
QuestionCounts == {NumQuestions - 1, NumQuestions + 1}

DefaultQuestionCount == NumQuestions + 1

DefaultTimeLimit == 1

\* useState(null) of quizResults: total 0 stands for null
NullResults ==
    [correct |-> 0, total |-> 0, percentage |-> 0, grade |-> "", timeTaken |-> 0]

\* the lists without repetition of length n over the set S
InjectiveSeqs(S, n) ==
    { q \in [1..n -> S] : \A i, j \in 1..n : q[i] = q[j] => i = j }

\* shuffled.slice(0, Math.min(questionCount, shuffled.length)) for the
\* questions F that pass the filter
SelectedQuizzes(F, questionCount) ==
    InjectiveSeqs({ questionBank[i] : i \in F }, Min(questionCount, Cardinality(F)))

\* the questions whose selected answer is the correct one
CorrectCount(quiz, answers) ==
    Cardinality({ i \in DOMAIN quiz :
                    /\ quiz[i].id \in DOMAIN answers
                    /\ answers[quiz[i].id] = quiz[i].correct })

\* Math.round((correct / total) * 100)
Percentage(correct, total) == (200 * correct + total) \div (2 * total)

Grade(percentage) ==
    IF percentage >= 90 THEN "A"
    ELSE IF percentage >= 80 THEN "B"
    ELSE IF percentage >= 70 THEN "C"
    ELSE IF percentage >= 60 THEN "D"
    ELSE "F"

\* calculateResults of a render whose generatedQuiz, selectedAnswers,
\* quizConfig.timeLimit and timeRemaining were quiz, answers, timeLimit, remaining
calculateResults(quiz, answers, timeLimit, remaining) ==
    LET correct == CorrectCount(quiz, answers)
        percentage == Percentage(correct, Len(quiz))
    IN  [correct |-> correct, total |-> Len(quiz), percentage |-> percentage,
         grade |-> Grade(percentage),
         timeTaken |-> timeLimit - (remaining \div SecondsPerMinute)]

\* the closure of the render in which the countdown callback is created
QuizClosure ==
    [quiz |-> quizSeq + 1, generatedQuiz |-> generatedQuiz,
     selectedAnswers |-> selectedAnswers,
     timeLimit |-> quizConfig.timeLimit, timeRemaining |-> quizTimeRemaining]

\* which of the three returns of the component renders
Screen ==
    IF isQuizCompleted /\ quizResults # NullResults THEN "results"
    ELSE IF isQuizStarted /\ Len(generatedQuiz) > 0 THEN "quiz"
    ELSE "config"

QuizPageOpened ==
    /\ quizMounted = TRUE
    /\ quizConfig = [subject |-> "", questionCount |-> DefaultQuestionCount,
                     timeLimit |-> DefaultTimeLimit]
    /\ isGenerating = FALSE
    /\ pendingQuiz = <<>>
    /\ generatedQuiz = <<>>
    /\ currentQuestionIndex = 0
    /\ selectedAnswers = <<>>
    /\ isQuizStarted = FALSE
    /\ isQuizCompleted = FALSE
    /\ quizTimeRemaining = 0
    /\ quizResults = NullResults
    /\ quizTimers = <<>>
    /\ quizSeq = 0
    /\ completions = <<>>

\* ---- debounce and throttle (utils/performance.ts) ----
Args == 1..NumArgs

\* clearTimeout(id)
ClearTimeoutMut(timers, id) == timers

ClearTimeout(timers, id) == [i \in (DOMAIN timers) \ {id} |-> timers[i]]

\* an unused timer id, as setTimeout returns
NewTimerId(timers) ==
    CHOOSE i \in 1..(Cardinality(DOMAIN timers) + 1) : i \notin DOMAIN timers

\* if (!inThrottle)
CanInvokeMut(flag) == TRUE

CanInvoke(flag) == ~flag

\* debounce(func, w, imm) has just been called: `let timeout = null`
DebounceCreated(w, imm) ==
    /\ immediate = imm
    /\ wait = w
    /\ timeout = 0
    /\ debounceTimers = <<>>
    /\ debounceLog = <<>>
    /\ lastCall = [at |-> -1, args |-> 0]
    /\ debounceCalls = 0
    /\ invokedSinceCall = 0

\* throttle(func, l) has just been called: `let inThrottle` is undefined
ThrottleCreated(l) ==
    /\ limit = l
    /\ inThrottle = FALSE
    /\ throttleTimers = <<>>
    /\ throttleLog = <<>>
    /\ throttleCalls = 0

\* ---- the lecture recorder (components/LectureRecorder.tsx) ----
\* new SpeechRecognition() with the onend handler of a render whose
\* isRecording and isPaused were rec and paused
NewRecognition(rec, paused) ==
    [state |-> "idle", isRecording |-> rec, isPaused |-> paused]

NewRecognitionId(recs) ==
    CHOOSE i \in 1..(Cardinality(DOMAIN recs) + 1) : i \notin DOMAIN recs

\* recognition.stop(): a started recognition ends later, with an end event
StopRecognition(recs, id) ==
    IF id \in DOMAIN recs /\ recs[id].state = "started"
    THEN [recs EXCEPT ![id].state = "stopping"]
    ELSE recs

\* recognition.start() throws when the recognition has already started
StartThrows(recs, id) == recs[id].state # "idle"

StartRecognition(recs, id) ==
    IF StartThrows(recs, id) THEN recs ELSE [recs EXCEPT ![id].state = "started"]

\* objects that are neither referenced nor able to deliver an event are gone
Reachable(recs, ref) ==
    [i \in { j \in DOMAIN recs : j = ref \/ recs[j].state # "idle" } |-> recs[i]]

\* the dependencies [isRecording, isPaused, addToast] of the effect changed
EffectReruns(rec, paused) == rec # lectureRecording \/ paused # isPaused

\* the cleanup of the speech recognition effect followed by its next run, in
\* a render whose isRecording and isPaused are rec and paused; recs, ref, ivs
\* and ivref are the objects and refs as the handler left them
AfterEffect(recs, ref, ivs, ivref, rec, paused) ==
    IF ~EffectReruns(rec, paused)
    THEN [recognitions |-> Reachable(recs, ref), recognitionRef |-> ref,
          durationIntervals |-> ivs]
    ELSE LET stopped == StopRecognition(recs, ref)
             cleared == IF ivref # 0 THEN ivs \ {ivref} ELSE ivs
             id == NewRecognitionId(stopped)
         IN  IF supported
             THEN [recognitions |->
                       Reachable((id :> NewRecognition(rec, paused)) @@ stopped, id),
                   recognitionRef |-> id,
                   durationIntervals |-> cleared]
             ELSE [recognitions |-> Reachable(stopped, ref), recognitionRef |-> ref,
                   durationIntervals |-> cleared]

\* the component has mounted and the speech recognition effect has run once
RecorderMounted(sup) ==
    /\ supported = sup
    /\ hasPermission = "null"
    /\ lectureRecording = FALSE
    /\ isPaused = FALSE
    /\ transcript = <<>>
    /\ currentText = ""
    /\ recordingDuration = 0
    /\ recognitionRef = (IF sup THEN 1 ELSE 0)
    /\ recognitions = (IF sup THEN (1 :> NewRecognition(FALSE, FALSE)) ELSE <<>>)
    /\ durationRef = 0
    /\ durationIntervals = {}
    /\ startTimeRef = -1
    /\ startedRecognition = 0
    /\ recordingSeq = 0
    /\ pdfs = 0

\* the components the specification at hand does not exercise
QuizIdle == QuizPageOpened

UtilsIdle == clock = 0 /\ DebounceCreated(1, FALSE) /\ ThrottleCreated(1)

RecorderIdle == RecorderMounted(TRUE)

\* ---- initial state: the page has just mounted ----
FreshComponent ==
    /\ mounted = TRUE
    /\ cameraRequest = "pending"
    /\ isInitialized = FALSE
    /\ isRecording = FALSE
    /\ timeSlot = DefaultTimeSlot
    /\ currentSession = NullSession
    /\ registeredStudents = <<>>
    /\ detectedFaces = <<>>
    /\ timeRemaining = 0
    /\ intervalRef = 0

PageOpened ==
    /\ FreshComponent
    /\ intervals = <<>>
    /\ inflight = EmptyBag
    /\ results = <<>>
    /\ elapsed = 0
    /\ ended = <<>>
    /\ now = 0
    /\ adapterFailed = FALSE

AttendanceIdle ==
    /\ PageOpened
    /\ sessionSeq = 0
    /\ randomValues = {0}

Init ==
    /\ AttendanceIdle
    /\ QuizIdle
    /\ UtilsIdle
    /\ RecorderIdle

\* the visit in which the last of the MaxSessions sessions is started
DetailInit ==
    /\ PageOpened
    /\ sessionSeq = MaxSessions - 1
    /\ randomValues = 0..(RandomSteps - 1)
    /\ QuizIdle
    /\ UtilsIdle
    /\ RecorderIdle

\* ---- unmounting: the cleanup of the initialization effect ----
\* clearInterval(intervalRef.current); the detection interval is cleared by
\* its own effect cleanup, and a state update of an unmounted component does
\* nothing, so the pending toBlob callbacks can no longer act.
Unmount ==
    /\ mounted' = FALSE
    /\ intervals' = CleanupInterval(intervals, intervalRef)
    /\ inflight' = EmptyBag

\* ---- actions ----
OutsideAttendance == <<quizVars, clock, debounceVars, throttleVars, recorderVars>>

LoadRegisteredStudents ==
    /\ mounted
    /\ registeredStudents = <<>>
    /\ registeredStudents' = mockStudents
    /\ UNCHANGED <<mounted, cameraRequest, isInitialized, isRecording, timeSlot,
                   currentSession, detectedFaces, timeRemaining, intervalRef,
                   intervals, inflight, results, sessionSeq, elapsed, ended,
                   env, adapterFailed>>
    /\ UNCHANGED OutsideAttendance

InitializeCamera ==
    /\ mounted
    /\ cameraRequest = "pending"
    /\ \E ok \in BOOLEAN :
         /\ cameraRequest' = IF ok THEN "granted" ELSE "denied"
         /\ isInitialized' = ok
    /\ UNCHANGED <<mounted, isRecording, timeSlot, currentSession,
                   registeredStudents, detectedFaces, timeRemaining, intervalRef,
                   intervals, inflight, results, sessionSeq, elapsed, ended,
                   env, adapterFailed>>
    /\ UNCHANGED OutsideAttendance

SetTimeSlot ==
    /\ mounted
    /\ ~isRecording
    /\ \E t \in 1..MaxTimeSlot : timeSlot' = t
    /\ UNCHANGED <<mounted, cameraRequest, isInitialized, isRecording,
                   currentSession, registeredStudents, detectedFaces,
                   timeRemaining, intervalRef, intervals, inflight, results,
                   sessionSeq, elapsed, ended,
                   env, adapterFailed>>
    /\ UNCHANGED OutsideAttendance

StartAttendanceSession ==
    /\ mounted
    /\ CanStart
    /\ sessionSeq < MaxSessions
    /\ LET id == NewIntervalId
           session == [sessionId |-> NewSessionId, timeSlot |-> timeSlot,
                       maxStudents |-> maxStudents, detectedStudents |-> <<>>,
                       isActive |-> TRUE, startTime |-> now]
       IN  /\ currentSession' = session
           /\ isRecording' = TRUE
           /\ timeRemaining' = InitialTimeRemaining(timeSlot)
           /\ detectedFaces' = <<>>
           /\ intervalRef' = id
           \* the callback calls the endAttendanceSession of this render
           /\ intervals' = (id :> [currentSession |-> currentSession,
                                   detectedFaces |-> detectedFaces,
                                   registeredStudents |-> registeredStudents])
                           @@ intervals
    /\ sessionSeq' = sessionSeq + 1
    /\ elapsed' = 0
    /\ adapterFailed' = FALSE
    /\ UNCHANGED <<mounted, cameraRequest, isInitialized, timeSlot,
                   registeredStudents, inflight, results, ended, env>>
    /\ UNCHANGED OutsideAttendance

\* endAttendanceSession as created by a render whose currentSession,
\* detectedFaces and registeredStudents were cs, faces and students
EndAttendanceSession(cs, faces, students, trigger) ==
    /\ ended' = Append(ended, [sid |-> currentSession.sessionId,
                               trigger |-> trigger,
                               emitted |-> cs.sessionId # 0,
                               accepted |-> Len(detectedFaces)])
    /\ isRecording' = FALSE
    /\ intervalRef' = 0
    /\ IF cs.sessionId # 0
       THEN \* navigate(...): the results page replaces this page
            /\ results' = Append(results,
                 [session |-> [cs EXCEPT !.detectedStudents = faces, !.isActive = FALSE],
                  presentStudents |-> faces,
                  absentStudents |-> AbsentStudents(students, faces)])
            /\ Unmount
       ELSE /\ intervals' = IF intervalRef # 0 THEN ClearInterval(intervals, intervalRef) ELSE intervals
            /\ UNCHANGED <<results, mounted, inflight>>

\* the countdown callback of interval id
TimerTick ==
    /\ mounted
    /\ \E id \in DOMAIN intervals :
         IF TimerExpired(timeRemaining)
         THEN /\ EndAttendanceSession(intervals[id].currentSession,
                                      intervals[id].detectedFaces,
                                      intervals[id].registeredStudents, "timer")
              /\ timeRemaining' = 0
         ELSE /\ timeRemaining' = timeRemaining - 1
              /\ UNCHANGED <<mounted, isRecording, intervalRef, intervals,
                             inflight, results, ended>>
    /\ elapsed' = elapsed + 1
    /\ UNCHANGED <<cameraRequest, isInitialized, timeSlot, currentSession,
                   registeredStudents, detectedFaces, sessionSeq, env, adapterFailed>>
    /\ UNCHANGED OutsideAttendance

\* the "End Session Early" button, rendered only while isRecording
EndSessionEarly ==
    /\ mounted
    /\ isRecording
    /\ EndAttendanceSession(currentSession, detectedFaces, registeredStudents, "manual")
    /\ UNCHANGED <<cameraRequest, isInitialized, timeSlot, currentSession,
                   registeredStudents, detectedFaces, timeRemaining, sessionSeq,
                   elapsed, env, adapterFailed>>
    /\ UNCHANGED OutsideAttendance

\* the detection interval calls detectAndRecognizeFaces, which hands the
\* frame to canvas.toBlob
DetectAndRecognizeFaces ==
    /\ mounted
    /\ isRecording
    /\ BagCardinality(inflight) < MaxInflight
    /\ inflight' = inflight (+) SetToBag({[detectedFaces |-> detectedFaces,
                                           registeredStudents |-> registeredStudents]})
    /\ UNCHANGED <<mounted, cameraRequest, isInitialized, isRecording, timeSlot,
                   currentSession, registeredStudents, detectedFaces,
                   timeRemaining, intervalRef, intervals, results, sessionSeq,
                   elapsed, ended,
                   env, adapterFailed>>
    /\ UNCHANGED OutsideAttendance

\* the toBlob callback: processFrameForFaceRecognition of the capturing render
ProcessFrameForFaceRecognition ==
    /\ mounted
    /\ \E c \in BagToSet(inflight), blob \in BOOLEAN, mockDetection \in BOOLEAN :
         /\ inflight' = inflight (-) SetToBag({c})
         /\ LET availableStudents == AvailableStudents(c.registeredStudents, c.detectedFaces)
            IN  IF blob /\ mockDetection /\ Len(c.detectedFaces) < maxStudents
                        /\ Len(availableStudents) > 0
                THEN \E k \in 1..Len(availableStudents), r \in randomValues :
                        detectedFaces' = AddDetection(detectedFaces,
                                            NewDetection(availableStudents[k], r))
                ELSE detectedFaces' = detectedFaces
    /\ UNCHANGED <<mounted, cameraRequest, isInitialized, isRecording, timeSlot,
                   currentSession, registeredStudents, timeRemaining, intervalRef,
                   intervals, results, sessionSeq, elapsed, ended,
                   env, adapterFailed>>
    /\ UNCHANGED OutsideAttendance

\* the "Back to Classroom" button
BackToClassroom ==
    /\ mounted
    /\ Unmount
    /\ UNCHANGED <<cameraRequest, isInitialized, isRecording, timeSlot,
                   currentSession, registeredStudents, detectedFaces,
                   timeRemaining, intervalRef, results, sessionSeq, elapsed, ended,
                   env, adapterFailed>>
    /\ UNCHANGED OutsideAttendance

\* the attendance route is visited again: a new component instance
MountPage ==
    /\ ~mounted
    /\ mounted' = TRUE
    /\ cameraRequest' = "pending"
    /\ isInitialized' = FALSE
    /\ isRecording' = FALSE
    /\ timeSlot' = DefaultTimeSlot
    /\ currentSession' = NullSession
    /\ registeredStudents' = <<>>
    /\ detectedFaces' = <<>>
    /\ timeRemaining' = 0
    /\ intervalRef' = 0
    /\ UNCHANGED <<intervals, inflight, results, sessionSeq, elapsed, ended,
                   env, adapterFailed>>
    /\ UNCHANGED OutsideAttendance

\* the clock moves on
ClockTick ==
    /\ mounted
    /\ now < MaxClock
    /\ now' = now + 1
    /\ UNCHANGED <<mounted, cameraRequest, isInitialized, isRecording, timeSlot,
                   currentSession, registeredStudents, detectedFaces,
                   timeRemaining, intervalRef, intervals, inflight, results,
                   sessionSeq, elapsed, ended, randomValues, adapterFailed>>
    /\ UNCHANGED OutsideAttendance

\* a call inside the try block of detectAndRecognizeFaces throws: the catch
\* block logs the error, no frame is handed to canvas.toBlob
DetectAndRecognizeFacesThrows ==
    /\ mounted
    /\ isRecording
    /\ ~adapterFailed
    /\ adapterFailed' = TRUE
    /\ UNCHANGED <<mounted, cameraRequest, isInitialized, isRecording, timeSlot,
                   currentSession, registeredStudents, detectedFaces,
                   timeRemaining, intervalRef, intervals, inflight, results,
                   sessionSeq, elapsed, ended, env>>
    /\ UNCHANGED OutsideAttendance

\* a call inside the try block of processFrameForFaceRecognition throws
\* before the detection is made: the catch block logs the error
ProcessFrameForFaceRecognitionThrows ==
    /\ mounted
    /\ \E c \in BagToSet(inflight) : inflight' = inflight (-) SetToBag({c})
    /\ adapterFailed' = (adapterFailed \/ isRecording)
    /\ UNCHANGED <<mounted, cameraRequest, isInitialized, isRecording, timeSlot,
                   currentSession, registeredStudents, detectedFaces,
                   timeRemaining, intervalRef, intervals, results, sessionSeq,
                   elapsed, ended, env>>
    /\ UNCHANGED OutsideAttendance

Next ==
    \/ LoadRegisteredStudents
    \/ InitializeCamera
    \/ SetTimeSlot
    \/ StartAttendanceSession
    \/ TimerTick
    \/ EndSessionEarly
    \/ DetectAndRecognizeFaces
    \/ ProcessFrameForFaceRecognition
    \/ BackToClassroom
    \/ MountPage

Spec == Init /\ [][Next]_allVars

\* one visit of the page, with the clock, Math.random() and exceptions
DetailNext ==
    \/ LoadRegisteredStudents
    \/ InitializeCamera
    \/ StartAttendanceSession
    \/ TimerTick
    \/ EndSessionEarly
    \/ DetectAndRecognizeFaces
    \/ ProcessFrameForFaceRecognition
    \/ ClockTick
    \/ DetectAndRecognizeFacesThrows
    \/ ProcessFrameForFaceRecognitionThrows

DetailSpec == DetailInit /\ [][DetailNext]_allVars

\* ---- the quiz page: actions ----
OutsideQuiz == <<vars, clock, debounceVars, throttleVars, recorderVars>>

\* the selectors of the configuration screen
SetQuizConfig ==
    /\ quizMounted
    /\ Screen = "config"
    /\ \/ \E subject \in Subjects : quizConfig' = [quizConfig EXCEPT !.subject = subject]
       \/ \E n \in QuestionCounts : quizConfig' = [quizConfig EXCEPT !.questionCount = n]
       \/ \E t \in 1..MaxTimeLimit : quizConfig' = [quizConfig EXCEPT !.timeLimit = t]
    /\ UNCHANGED <<quizMounted, isGenerating, pendingQuiz, generatedQuiz,
                   currentQuestionIndex, selectedAnswers, isQuizStarted,
                   isQuizCompleted, quizTimeRemaining, quizResults, quizTimers,
                   quizSeq, completions>>
    /\ UNCHANGED OutsideQuiz

\* generateQuiz up to its setTimeout: the questions F pass the filter (all
\* of them when none does), are shuffled and cut to questionCount
generateQuiz ==
    /\ quizMounted
    /\ Screen = "config"
    /\ ~isGenerating
    /\ quizConfig.subject # ""
    /\ isGenerating' = TRUE
    /\ \E F \in (SUBSET (1..NumQuestions)) \ {{}} :
         \E selected \in SelectedQuizzes(F, quizConfig.questionCount) :
            pendingQuiz' = selected
    /\ UNCHANGED <<quizMounted, quizConfig, generatedQuiz, currentQuestionIndex,
                   selectedAnswers, isQuizStarted, isQuizCompleted,
                   quizTimeRemaining, quizResults, quizTimers, quizSeq,
                   completions>>
    /\ UNCHANGED OutsideQuiz

\* the setTimeout callback of generateQuiz; a quiz screen whose current
\* question is no longer there throws while rendering and the page is gone
GenerateQuizDone ==
    /\ quizMounted
    /\ isGenerating
    /\ generatedQuiz' = pendingQuiz
    /\ isGenerating' = FALSE
    /\ pendingQuiz' = <<>>
    /\ quizMounted' = ~(Screen = "quiz" /\ currentQuestionIndex >= Len(pendingQuiz))
    /\ UNCHANGED <<quizConfig, currentQuestionIndex, selectedAnswers,
                   isQuizStarted, isQuizCompleted, quizTimeRemaining,
                   quizResults, quizTimers, quizSeq, completions>>
    /\ UNCHANGED OutsideQuiz

\* the "Start Quiz" button of the preview
startQuiz ==
    /\ quizMounted
    /\ Screen = "config"
    /\ Len(generatedQuiz) # 0
    /\ quizSeq < MaxQuizzes
    /\ isQuizStarted' = TRUE
    /\ currentQuestionIndex' = 0
    /\ selectedAnswers' = <<>>
    /\ quizTimeRemaining' = quizConfig.timeLimit * SecondsPerMinute
    \* the callback calls the completeQuiz of this render
    /\ quizTimers' = (NewTimerId(quizTimers) :> QuizClosure) @@ quizTimers
    /\ quizSeq' = quizSeq + 1
    /\ UNCHANGED <<quizMounted, quizConfig, isGenerating, pendingQuiz,
                   generatedQuiz, isQuizCompleted, quizResults, completions>>
    /\ UNCHANGED OutsideQuiz

\* an option of the current question is clicked
selectAnswer ==
    /\ quizMounted
    /\ Screen = "quiz"
    /\ \E answerIndex \in Options :
         LET questionId == generatedQuiz[currentQuestionIndex + 1].id
         IN  selectedAnswers' =
                [q \in (DOMAIN selectedAnswers) \cup {questionId} |->
                    IF q = questionId THEN answerIndex ELSE selectedAnswers[q]]
    /\ UNCHANGED <<quizMounted, quizConfig, isGenerating, pendingQuiz,
                   generatedQuiz, currentQuestionIndex, isQuizStarted,
                   isQuizCompleted, quizTimeRemaining, quizResults, quizTimers,
                   quizSeq, completions>>
    /\ UNCHANGED OutsideQuiz

\* the "Previous" button, disabled on the first question
PreviousQuestion ==
    /\ quizMounted
    /\ Screen = "quiz"
    /\ currentQuestionIndex # 0
    /\ currentQuestionIndex' = currentQuestionIndex - 1
    /\ UNCHANGED <<quizMounted, quizConfig, isGenerating, pendingQuiz,
                   generatedQuiz, selectedAnswers, isQuizStarted,
                   isQuizCompleted, quizTimeRemaining, quizResults, quizTimers,
                   quizSeq, completions>>
    /\ UNCHANGED OutsideQuiz

\* completeQuiz as created by a render with the values of closure c
completeQuiz(c, trigger) ==
    /\ quizResults' = calculateResults(c.generatedQuiz, c.selectedAnswers,
                                       c.timeLimit, c.timeRemaining)
    /\ isQuizCompleted' = TRUE
    /\ isQuizStarted' = FALSE
    /\ completions' = Append(completions, [quiz |-> c.quiz, by |-> trigger])

\* the "Next Question" / "Finish Quiz" button, disabled until the current
\* question is answered
nextQuestion ==
    /\ quizMounted
    /\ Screen = "quiz"
    /\ generatedQuiz[currentQuestionIndex + 1].id \in DOMAIN selectedAnswers
    /\ IF currentQuestionIndex < Len(generatedQuiz) - 1
       THEN /\ currentQuestionIndex' = currentQuestionIndex + 1
            /\ UNCHANGED <<quizResults, isQuizCompleted, isQuizStarted, completions>>
       ELSE /\ completeQuiz([QuizClosure EXCEPT !.quiz = quizSeq], "finish")
            /\ UNCHANGED currentQuestionIndex
    /\ UNCHANGED <<quizMounted, quizConfig, isGenerating, pendingQuiz,
                   generatedQuiz, selectedAnswers, quizTimeRemaining,
                   quizTimers, quizSeq>>
    /\ UNCHANGED OutsideQuiz

\* the countdown callback of timer id
QuizTimerTick ==
    /\ quizMounted
    /\ \E id \in DOMAIN quizTimers :
         IF quizTimeRemaining <= 1
         THEN /\ quizTimers' = ClearInterval(quizTimers, id)
              /\ completeQuiz(quizTimers[id], "timer")
              /\ quizTimeRemaining' = 0
         ELSE /\ quizTimeRemaining' = quizTimeRemaining - 1
              /\ UNCHANGED <<quizTimers, quizResults, isQuizCompleted,
                             isQuizStarted, completions>>
    /\ UNCHANGED <<quizMounted, quizConfig, isGenerating, pendingQuiz,
                   generatedQuiz, currentQuestionIndex, selectedAnswers, quizSeq>>
    /\ UNCHANGED OutsideQuiz

\* the "Take Another Quiz" button of the results screen
resetQuiz ==
    /\ quizMounted
    /\ Screen = "results"
    /\ isQuizStarted' = FALSE
    /\ isQuizCompleted' = FALSE
    /\ currentQuestionIndex' = 0
    /\ selectedAnswers' = <<>>
    /\ quizResults' = NullResults
    /\ generatedQuiz' = <<>>
    /\ UNCHANGED <<quizMounted, quizConfig, isGenerating, pendingQuiz,
                   quizTimeRemaining, quizTimers, quizSeq, completions>>
    /\ UNCHANGED OutsideQuiz

\* the "Back to Classroom" button of the results screen: navigate(-1)
QuizBackToClassroom ==
    /\ quizMounted
    /\ Screen = "results"
    /\ quizMounted' = FALSE
    /\ UNCHANGED <<quizConfig, isGenerating, pendingQuiz, generatedQuiz,
                   currentQuestionIndex, selectedAnswers, isQuizStarted,
                   isQuizCompleted, quizTimeRemaining, quizResults, quizTimers,
                   quizSeq, completions>>
    /\ UNCHANGED OutsideQuiz

QuizNext ==
    \/ SetQuizConfig
    \/ generateQuiz
    \/ GenerateQuizDone
    \/ startQuiz
    \/ selectAnswer
    \/ PreviousQuestion
    \/ nextQuestion
    \/ QuizTimerTick
    \/ resetQuiz
    \/ QuizBackToClassroom

QuizSpec == Init /\ [][QuizNext]_allVars

\* ---- debounce and throttle: actions ----
\* the clock moves on by one unit
TimePasses ==
    /\ clock < MaxUtilClock
    /\ clock' = clock + 1
    /\ UNCHANGED <<vars, quizVars, debounceVars, throttleVars, recorderVars>>

\* the timers left when timer id has fired
Fired(timers, id) == [i \in (DOMAIN timers) \ {id} |-> timers[i]]

\* a call of the debounced function with arguments a
DebounceCall ==
    /\ debounceCalls < MaxCalls
    /\ clock + wait <= MaxUtilClock
    /\ \E a \in Args :
         LET callNow == immediate /\ timeout = 0
             cleared == IF timeout # 0 THEN ClearTimeout(debounceTimers, timeout)
                        ELSE debounceTimers
             id == NewTimerId(cleared)
         IN  /\ debounceTimers' = (id :> [due |-> clock + wait, args |-> a]) @@ cleared
             /\ timeout' = id
             /\ debounceLog' = IF callNow
                               THEN Append(debounceLog, [at |-> clock, args |-> a])
                               ELSE debounceLog
             /\ invokedSinceCall' = IF callNow THEN 1 ELSE 0
             /\ lastCall' = [at |-> clock, args |-> a]
    /\ debounceCalls' = debounceCalls + 1
    /\ UNCHANGED <<immediate, wait, clock>>
    /\ UNCHANGED <<vars, quizVars, throttleVars, recorderVars>>

\* the setTimeout callback `later` of timer id
DebounceLater ==
    /\ \E id \in DOMAIN debounceTimers :
         /\ clock >= debounceTimers[id].due
         /\ debounceTimers' = Fired(debounceTimers, id)
         /\ timeout' = 0
         /\ IF ~immediate
            THEN /\ debounceLog' = Append(debounceLog,
                                     [at |-> clock, args |-> debounceTimers[id].args])
                 /\ invokedSinceCall' = invokedSinceCall + 1
            ELSE UNCHANGED <<debounceLog, invokedSinceCall>>
    /\ UNCHANGED <<immediate, wait, lastCall, debounceCalls, clock>>
    /\ UNCHANGED <<vars, quizVars, throttleVars, recorderVars>>

DebounceInit ==
    /\ AttendanceIdle
    /\ QuizIdle
    /\ RecorderIdle
    /\ clock = 0
    /\ ThrottleCreated(1)
    /\ \E w \in 1..MaxDelay, imm \in BOOLEAN : DebounceCreated(w, imm)

DebounceNext ==
    \/ DebounceCall
    \/ DebounceLater
    \/ TimePasses

\* a timer that is due fires, and time does not stop
DebounceSpec ==
    /\ DebounceInit
    /\ [][DebounceNext]_allVars
    /\ WF_allVars(DebounceLater)
    /\ WF_allVars(TimePasses)

\* a call of the throttled function with arguments a
ThrottleCall ==
    /\ throttleCalls < MaxCalls
    /\ \E a \in Args :
         IF CanInvoke(inThrottle)
         THEN /\ throttleLog' = Append(throttleLog, [at |-> clock, args |-> a])
              /\ inThrottle' = TRUE
              /\ throttleTimers' = (NewTimerId(throttleTimers) :> (clock + limit))
                                   @@ throttleTimers
         ELSE UNCHANGED <<throttleLog, inThrottle, throttleTimers>>
    /\ throttleCalls' = throttleCalls + 1
    /\ UNCHANGED <<limit, clock>>
    /\ UNCHANGED <<vars, quizVars, debounceVars, recorderVars>>

\* the setTimeout callback of timer id: inThrottle = false
ThrottleTimeout ==
    /\ \E id \in DOMAIN throttleTimers :
         /\ clock >= throttleTimers[id]
         /\ throttleTimers' = Fired(throttleTimers, id)
    /\ inThrottle' = FALSE
    /\ UNCHANGED <<limit, throttleLog, throttleCalls, clock>>
    /\ UNCHANGED <<vars, quizVars, debounceVars, recorderVars>>

ThrottleInit ==
    /\ AttendanceIdle
    /\ QuizIdle
    /\ RecorderIdle
    /\ clock = 0
    /\ DebounceCreated(1, FALSE)
    /\ \E l \in 1..MaxDelay : ThrottleCreated(l)

ThrottleNext ==
    \/ ThrottleCall
    \/ ThrottleTimeout
    \/ TimePasses

ThrottleSpec == ThrottleInit /\ [][ThrottleNext]_allVars

\* ---- the lecture recorder: actions ----
\* isProcessing is set and reset within stopRecording and correctedText is
\* only displayed: neither is a variable here.
OutsideRecorder == <<vars, quizVars, debounceVars, throttleVars>>

\* the permission query of the mount effect resolves (or rejects)
checkMicrophonePermission ==
    /\ hasPermission = "null"
    /\ \E granted \in BOOLEAN :
         hasPermission' = IF granted THEN "granted" ELSE "denied"
    /\ UNCHANGED <<supported, lectureRecording, isPaused, transcript, currentText,
                   recordingDuration, recognitionRef, recognitions, durationRef,
                   durationIntervals, startTimeRef, startedRecognition,
                   recordingSeq, pdfs, clock>>
    /\ UNCHANGED OutsideRecorder

\* setHasPermission outside the mount effect: permission.onchange, or the
\* "Grant Microphone Access" button of the permission screen
requestMicrophonePermission ==
    /\ hasPermission # "null"
    /\ \E granted \in BOOLEAN :
         /\ hasPermission' = IF granted THEN "granted" ELSE "denied"
         /\ hasPermission' # hasPermission
    /\ UNCHANGED <<supported, lectureRecording, isPaused, transcript, currentText,
                   recordingDuration, recognitionRef, recognitions, durationRef,
                   durationIntervals, startTimeRef, startedRecognition,
                   recordingSeq, pdfs, clock>>
    /\ UNCHANGED OutsideRecorder

\* the "Start Recording" button, rendered while !isRecording, followed by
\* the re-render and the effect it triggers
startRecording ==
    /\ hasPermission = "granted"
    /\ ~lectureRecording
    /\ recordingSeq < MaxRecordings
    /\ Cardinality(DOMAIN recognitions) < MaxRecognitions
    /\ IF recognitionRef = 0
       THEN UNCHANGED <<lectureRecording, isPaused, transcript, currentText,
                        recordingDuration, recognitionRef, recognitions,
                        durationRef, durationIntervals, startTimeRef,
                        startedRecognition, recordingSeq>>
       ELSE LET throws == StartThrows(recognitions, recognitionRef)
                started == StartRecognition(recognitions, recognitionRef)
                interval == recordingSeq + 1
                ivs == IF throws THEN durationIntervals
                       ELSE durationIntervals \cup {interval}
                ivref == IF throws THEN durationRef ELSE interval
                after == AfterEffect(started, recognitionRef, ivs, ivref, TRUE, FALSE)
            IN  /\ lectureRecording' = TRUE
                /\ isPaused' = FALSE
                /\ transcript' = <<>>
                /\ currentText' = ""
                /\ recordingDuration' = 0
                /\ startTimeRef' = clock
                /\ durationRef' = ivref
                /\ startedRecognition' = IF throws THEN 0 ELSE recognitionRef
                /\ recognitions' = after.recognitions
                /\ recognitionRef' = after.recognitionRef
                /\ durationIntervals' = after.durationIntervals
                /\ recordingSeq' = recordingSeq + 1
    /\ UNCHANGED <<supported, hasPermission, pdfs, clock>>
    /\ UNCHANGED OutsideRecorder

\* the "Pause" / "Resume" button, rendered while isRecording
togglePause ==
    /\ hasPermission = "granted"
    /\ lectureRecording
    /\ recognitionRef # 0
    /\ Cardinality(DOMAIN recognitions) < MaxRecognitions
    /\ LET resumed == isPaused
           recs == IF resumed THEN StartRecognition(recognitions, recognitionRef)
                   ELSE StopRecognition(recognitions, recognitionRef)
           after == AfterEffect(recs, recognitionRef, durationIntervals, durationRef,
                                TRUE, ~isPaused)
       IN  /\ isPaused' = ~isPaused
           /\ startedRecognition' =
                 IF resumed /\ ~StartThrows(recognitions, recognitionRef)
                 THEN recognitionRef ELSE 0
           /\ recognitions' = after.recognitions
           /\ recognitionRef' = after.recognitionRef
           /\ durationIntervals' = after.durationIntervals
    /\ UNCHANGED <<supported, hasPermission, lectureRecording, transcript,
                   currentText, recordingDuration, durationRef, startTimeRef,
                   recordingSeq, pdfs, clock>>
    /\ UNCHANGED OutsideRecorder

\* the "Stop & Generate PDF" button, rendered while isRecording; the PDF is
\* handed to onRecordingComplete unless the transcript is empty or jsPDF throws
stopRecording ==
    /\ hasPermission = "granted"
    /\ lectureRecording
    /\ recognitionRef # 0
    /\ LET recs == StopRecognition(recognitions, recognitionRef)
           ivs == IF durationRef # 0 THEN durationIntervals \ {durationRef}
                  ELSE durationIntervals
           after == AfterEffect(recs, recognitionRef, ivs, 0, FALSE, FALSE)
       IN  /\ lectureRecording' = FALSE
           /\ isPaused' = FALSE
           /\ durationRef' = 0
           /\ startedRecognition' = 0
           /\ recognitions' = after.recognitions
           /\ recognitionRef' = after.recognitionRef
           /\ durationIntervals' = after.durationIntervals
    /\ IF transcript = <<>>
       THEN pdfs' = pdfs
       ELSE \E saved \in BOOLEAN : pdfs' = IF saved THEN pdfs + 1 ELSE pdfs
    /\ UNCHANGED <<supported, hasPermission, transcript, currentText,
                   recordingDuration, startTimeRef, recordingSeq, clock>>
    /\ UNCHANGED OutsideRecorder

\* onresult of recognition id, with one final or one interim result
RecognitionResult ==
    /\ \E id \in DOMAIN recognitions, final \in BOOLEAN :
         /\ recognitions[id].state # "idle"
         /\ IF final
            THEN /\ Len(transcript) < MaxSegments
                 /\ transcript' = Append(transcript, [timestamp |-> clock])
                 /\ currentText' = ""
            ELSE /\ transcript' = transcript
                 /\ currentText' = "interim"
    /\ UNCHANGED <<supported, hasPermission, lectureRecording, isPaused,
                   recordingDuration, recognitionRef, recognitions, durationRef,
                   durationIntervals, startTimeRef, startedRecognition,
                   recordingSeq, pdfs, clock>>
    /\ UNCHANGED OutsideRecorder

\* onend of recognition id: the handler restarts recognitionRef.current when
\* the render that created the handler was recording and not paused
RecognitionEnd ==
    /\ \E id \in DOMAIN recognitions :
         /\ recognitions[id].state # "idle"
         /\ LET over == [recognitions EXCEPT ![id].state = "idle"]
                restart == /\ recognitions[id].isRecording
                           /\ ~recognitions[id].isPaused
                           /\ recognitionRef # 0
            IN  recognitions' =
                   Reachable(IF restart THEN StartRecognition(over, recognitionRef)
                             ELSE over, recognitionRef)
    /\ UNCHANGED <<supported, hasPermission, lectureRecording, isPaused, transcript,
                   currentText, recordingDuration, recognitionRef, durationRef,
                   durationIntervals, startTimeRef, startedRecognition,
                   recordingSeq, pdfs, clock>>
    /\ UNCHANGED OutsideRecorder

RecorderInit ==
    /\ AttendanceIdle
    /\ QuizIdle
    /\ UtilsIdle
    /\ \E sup \in BOOLEAN : RecorderMounted(sup)

\* The callback of the duration interval is not among the steps: the
\* interval is cleared by the effect cleanup of the step that creates it.
\* The clock is read only into startTimeRef and the timestamps of the
\* transcript, which no decision of the component reads: it stays as it is.
RecorderNext ==
    \/ checkMicrophonePermission
    \/ requestMicrophonePermission
    \/ startRecording
    \/ togglePause
    \/ stopRecording
    \/ RecognitionResult
    \/ RecognitionEnd

RecorderSpec == RecorderInit /\ [][RecorderNext]_allVars

\* ======================= claims =======================

Cap == Min(maxStudents, Len(registeredStudents))

SessionDuration == currentSession.timeSlot * SecondsPerMinute

Recording == mounted /\ isRecording

\* C1: the number of accepted detections never exceeds min(capacity, |roster|).
C1_AcceptedWithinCapacity ==
    Len(detectedFaces) <= Cap

\* C2: at most one accepted detection exists per member id.
C2_OneDetectionPerMember ==
    \A i, j \in DOMAIN detectedFaces :
        detectedFaces[i].studentId = detectedFaces[j].studentId => i = j

\* C3: in every result the present and the absent members are disjoint and
\* together are exactly the roster.
C3_PresentAbsentPartition ==
    \A n \in DOMAIN results :
        /\ StudentIds(results[n].presentStudents) \cap ToSet(results[n].absentStudents) = {}
        /\ StudentIds(results[n].presentStudents) \cup ToSet(results[n].absentStudents)
             = ToSet(mockStudents)

C3_Witness ==
    \E n \in DOMAIN results :
        /\ results[n].presentStudents # <<>>
        /\ results[n].absentStudents # <<>>

\* C4: every session that has ended, by whatever trigger, has yielded a result.
C4_EveryEndYieldsResult ==
    \A n \in DOMAIN ended : ended[n].emitted

C6_CapacityEndsSession ==
    Recording => Len(detectedFaces) < Cap

\* C7: each session performs at most one terminal transition.
C7_OneTerminalTransition ==
    \A i, j \in DOMAIN ended : ended[i].sid = ended[j].sid => i = j

\* the caller ended the session when the countdown was about to expire
C7_Witness ==
    /\ ended # <<>>
    /\ Last(ended).trigger = "manual"
    /\ Last(ended).sid = currentSession.sessionId
    /\ timeRemaining = 1
    /\ intervals = <<>>

\* C9: once a session has ended no detection is added to its present set.
C9_NoAcceptAfterEnd ==
    [][(mounted /\ ~isRecording /\ ended # <<>>)
          => Len(detectedFaces') <= Len(detectedFaces)]_vars

\* C10: while a session is active no second session is created and no second
\* countdown is started.
C10_OneActiveSession ==
    /\ Cardinality(DOMAIN intervals) <= 1
    /\ Recording => /\ DOMAIN intervals = {intervalRef}
                    /\ currentSession.sessionId = sessionSeq
                    /\ currentSession.isActive
    /\ Len(ended) <= sessionSeq

C10_Witness ==
    /\ Recording
    /\ sessionSeq = 2
    /\ Len(ended) = 1
    /\ Cardinality(DOMAIN intervals) = 1

\* ---- steps and states the claims below speak of ----

\* a terminal trigger ran in this step
EndStep == Len(ended') = Len(ended) + 1

TimerEndStep == EndStep /\ Last(ended').trigger = "timer"

\* this step navigated to the results page
ResultStep == Len(results') = Len(results) + 1

\* the state of session s: not started yet, recording, or over
SessionState(s) ==
    IF s > sessionSeq THEN "Idle"
    ELSE IF mounted /\ isRecording /\ currentSession.sessionId = s THEN "Active"
    ELSE "Ended"

\* the reason the specification gives to each trigger
ReasonFor(trigger) == IF trigger = "timer" THEN "Timeout" ELSE "ManualAbort"

\* C11: the result emitted when a session ends holds exactly the detections
\* accepted up to that instant, whichever trigger ended the session.
C11_ResultHoldsAccepted ==
    [][(EndStep /\ ResultStep)
          => Last(results').presentStudents = detectedFaces]_vars

\* C12: the attendance rate of a result is |presentSet| / |roster|.
C12_AttendanceRate ==
    \A n \in DOMAIN results :
        attendancePercentage(results[n]).num * Len(mockStudents)
          = Cardinality(StudentIds(results[n].presentStudents)) * 100
              * attendancePercentage(results[n]).den

\* C13: within a session an accepted record is never altered or removed: a
\* later detection of the same member leaves the first observation's
\* timestamp and confidence as they were.
C13_FirstObservationKept ==
    [][(mounted' /\ sessionSeq' = sessionSeq)
          => \A i \in DOMAIN detectedFaces :
                /\ i \in DOMAIN detectedFaces'
                /\ detectedFaces'[i] = detectedFaces[i]]_vars

\* a member was detected a second time, at a later time
C13_Witness ==
    \E i, j \in DOMAIN detectedFaces :
        /\ i < j
        /\ detectedFaces[i].studentId = detectedFaces[j].studentId
        /\ detectedFaces[i].timestamp < detectedFaces[j].timestamp

\* C14: when the timer closes the session no detection is left pending: a
\* detection in flight at expiry is processed before the session closes.
C14_AcceptBeforeClose ==
    [][TimerEndStep => inflight = EmptyBag]_vars

\* C15: a session in which the adapter has failed is no longer active.
C15_FailureEndsSession ==
    Recording => ~adapterFailed

\* C16: the terminationReason of a result names the trigger that ended the
\* session.
C16_ReasonNamesTrigger ==
    [][(EndStep /\ ResultStep)
          => TerminationReasonOf(Last(results')) = ReasonFor(Last(ended').trigger)]_vars

\* C17: a session only moves Idle -> Active and Active -> Ended; an ended
\* session stays ended and no session goes from Idle straight to Ended.
C17_SessionStateMachine ==
    [][\A s \in 1..(MaxSessions + 1) :
          \/ SessionState(s)' = SessionState(s)
          \/ SessionState(s) = "Idle" /\ SessionState(s)' = "Active"
          \/ SessionState(s) = "Active" /\ SessionState(s)' = "Ended"]_vars

C17_Witness ==
    /\ ended # <<>>
    /\ SessionState(1) = "Ended"
    /\ SessionState(2) = "Active"

\* C18: every accepted detection is of a roster member and has a confidence
\* in [0,1].
C18_AcceptedAreValid ==
    \A i \in DOMAIN detectedFaces :
        /\ detectedFaces[i].studentId \in ToSet(registeredStudents)
        /\ detectedFaces[i].confidence >= 0
        /\ detectedFaces[i].confidence <= ConfidenceUnit

C18_Witness ==
    \E i \in DOMAIN detectedFaces : detectedFaces[i].confidence > Confidence(0)

\* C20: the countdown ends a session at most once, at the tick that completes
\* its duration, whatever was detected; accepting a detection leaves the
\* countdown as it was.
C20_SingleExpiry ==
    [][/\ TimerEndStep =>
            /\ elapsed' = SessionDuration
            /\ \A n \in DOMAIN ended : ended[n].sid # Last(ended').sid
       /\ Len(detectedFaces') > Len(detectedFaces) =>
            /\ timeRemaining' = timeRemaining
            /\ intervals' = intervals
            /\ intervalRef' = intervalRef]_vars

\* the countdown ended a session in which detections had been accepted
C20_Witness ==
    /\ ended # <<>>
    /\ Last(ended).trigger = "timer"
    /\ Last(ended).sid = currentSession.sessionId
    /\ Last(ended).accepted > 0
    /\ elapsed = SessionDuration

\* a session was started in this step
StartStep == sessionSeq' = sessionSeq + 1

\* a countdown callback ran in this step
TickStep == elapsed' = elapsed + 1

\* C21: a session is over as soon as the clock reaches its deadline
\* startTime + duration, however many ticks were delivered until then.
C21_ExpiresAtDeadline ==
    Recording => now < currentSession.startTime + SessionDuration

\* C22: the roster is not changed by any operation while a session is
\* recording, and the absent members of a result are the members of that
\* roster that are not present.
C22_RosterFixed ==
    [][/\ Recording => registeredStudents' = registeredStudents
       /\ ResultStep =>
            Last(results').absentStudents
              = NotDetected(registeredStudents, Last(results').presentStudents)]_vars

\* the countdown produced a result in which a member is absent
C22_Witness ==
    /\ results # <<>>
    /\ ended # <<>>
    /\ Last(ended).trigger = "timer"
    /\ Last(ended).emitted
    /\ Last(results).absentStudents # <<>>
    /\ registeredStudents = mockStudents

\* C23: the result at the end of a session that follows an earlier one on
\* the page carries the id of the session that ended and only detections
\* accepted in that session.
C23_ResultOfOwnSession ==
    [][(EndStep /\ ResultStep /\ currentSession.sessionId > 1)
          => /\ Last(results').session.sessionId = currentSession.sessionId
             /\ \A i \in DOMAIN Last(results').presentStudents :
                   /\ i \in DOMAIN detectedFaces
                   /\ Last(results').presentStudents[i] = detectedFaces[i]]_vars

\* C24: no countdown interval is live while no session is recording, at most
\* one is live at any time, and every end of a session clears it.
C24_NoIntervalUnlessRecording ==
    [][/\ ~Recording' => intervals' = <<>>
       /\ Cardinality(DOMAIN intervals') <= 1
       /\ EndStep => intervals' = <<>>]_vars

\* the page was left while a session was recording
C24_Witness ==
    /\ ~mounted
    /\ isRecording
    /\ intervalRef # 0
    /\ intervals = <<>>

\* C25: the remaining time starts at timeSlot * 60, goes down by exactly 1 on
\* each tick, never goes up during a session and is never below 0.
C25_RemainingTimeCountsDown ==
    [][/\ StartStep => timeRemaining' = timeSlot * SecondsPerMinute
       /\ (Recording /\ TickStep) => timeRemaining' = timeRemaining - 1
       /\ (Recording /\ ~StartStep) => timeRemaining' <= timeRemaining
       /\ timeRemaining' >= 0]_vars

\* the countdown has reached 0 from a start above 1
C25_Witness ==
    /\ mounted
    /\ ~isRecording
    /\ timeRemaining = 0
    /\ elapsed = SessionDuration
    /\ elapsed > 1

\* ---- the quiz page ----

\* the countdown called completeQuiz in this step
QuizTimeoutStep ==
    /\ Len(completions') = Len(completions) + 1
    /\ Last(completions').by = "timer"

\* C26: completeQuiz is called at most once for each quiz that was started:
\* the countdown of a quiz does not complete it a second time.
C26_QuizCompletedOnce ==
    \A i, j \in DOMAIN completions :
        completions[i].quiz = completions[j].quiz => i = j

\* C27: when the countdown of the running quiz reaches zero, the score of the
\* results is the number of questions whose selected answer is correct.
C27_TimeoutCountsAnswers ==
    [][(QuizTimeoutStep /\ Screen = "quiz" /\ Last(completions').quiz = quizSeq)
          => quizResults'.correct = CorrectCount(generatedQuiz, selectedAnswers)]_quizVars

\* ---- debounce and throttle ----

\* func was invoked by the debounced function in this step
DebounceInvokeStep == Len(debounceLog') = Len(debounceLog) + 1

\* C28: without immediate, func is invoked only when the latest call is at
\* least wait old, with the arguments of that call and once for it; and
\* after a call that no other call follows, func is invoked.
C28_DebounceTrailingEdge ==
    /\ [][(~immediate /\ DebounceInvokeStep)
            => /\ clock >= lastCall.at + wait
               /\ Last(debounceLog').args = lastCall.args
               /\ invokedSinceCall = 0]_debounceVars
    /\ ((~immediate /\ debounceCalls > 0 /\ invokedSinceCall = 0)
          ~> (invokedSinceCall = 1))

\* a burst of calls was followed by one invocation, with the last arguments
C28_Witness ==
    /\ ~immediate
    /\ debounceCalls = MaxCalls
    /\ Len(debounceLog) = 1
    /\ invokedSinceCall = 1
    /\ debounceLog[1].args = lastCall.args
    /\ debounceLog[1].args # 1

ThrottleCallStep == throttleCalls' = throttleCalls + 1

ThrottleInvokeStep == Len(throttleLog') = Len(throttleLog) + 1

\* C29: the first call invokes func at once; a call within limit of the
\* latest invocation is dropped, it is not invoked then nor later; two
\* invocations are at least limit apart.
C29_ThrottleDropsWithinLimit ==
    [][/\ (ThrottleCallStep /\ throttleCalls = 0)
            => throttleLog' = <<[at |-> clock, args |-> throttleLog'[1].args]>>
       /\ (ThrottleCallStep /\ throttleLog # <<>> /\ clock < Last(throttleLog).at + limit)
            => /\ throttleLog' = throttleLog
               /\ throttleTimers' = throttleTimers
       /\ ~ThrottleCallStep => throttleLog' = throttleLog
       /\ (ThrottleInvokeStep /\ throttleLog # <<>>)
            => clock >= Last(throttleLog).at + limit]_throttleVars

\* a call was dropped and a later call invoked func again
C29_Witness ==
    /\ throttleCalls = 3
    /\ Len(throttleLog) = 2
    /\ throttleLog[2].at >= throttleLog[1].at + limit

\* ---- the lecture recorder ----

\* C30: while a recording that started successfully is neither paused nor
\* stopped, its duration interval is live and the speech recognition that
\* was started has not been stopped by the component.
C30_RecordingStaysLive ==
    (lectureRecording /\ ~isPaused /\ startedRecognition # 0)
       => /\ durationRef \in durationIntervals
          /\ startedRecognition \in DOMAIN recognitions
                => recognitions[startedRecognition].state # "stopping"

====
